---- MODULE Spec2Model ----
(***************************************************************************)
(* Model of src/utils/position_redeemer.py: the per-condition settlement   *)
(* machine (redeem_condition, merge_condition), the Safe transaction       *)
(* pipeline (_execute_safe_transaction) and the batch drivers              *)
(* (redeem_market_positions, redeem_all_positions), running against a      *)
(* chain that holds the outcome-token balances, the payout denominators,   *)
(* the Safe nonce and the transactions that were broadcast and not yet     *)
(* mined (Spec); the batch drivers over every list of positions           *)
(* (SpecBatch); merge_balanced_positions over the same chain (SpecMerge);  *)
(* the per-condition operations called with either neg_risk flag           *)
(* (SpecNegRisk); the listing and slug filter of get_redeemable_positions  *)
(* (SpecList); and the assembly of the signature blob (SpecSig).           *)
(*                                                                         *)
(* The program is one synchronous thread of control: a call stack          *)
(* driver -> redeem_condition -> merge_condition ->                        *)
(* _execute_safe_transaction.  Each frame is a record variable holding the *)
(* frame's position (pc) and its Python locals.  A step of the program is  *)
(* one chain interaction (an RPC call) together with all the local         *)
(* computation up to the next chain interaction, so that the chain         *)
(* (mining, oracle resolution) interleaves exactly between RPC calls.      *)
(* Every RPC call can fail (raise).  Balances are in raw units; the        *)
(* process is the only signer acting on the Safe.                          *)
(***************************************************************************)
EXTENDS Integers, Sequences, FiniteSets, TLC

\* Condition identifiers known to the position-listing service.
Conds == {"c1", "c2"}

\* Largest outcome-token balance (raw units) a condition starts with.
MaxBal == 2

\* Number of public operations invoked in one behaviour.
MaxOps == 2

\* Longest list of positions the listing service returns.
MaxPositions == 2

\* A position without a conditionId (the key missing, or empty).
NoId == ""

\* The public batch drivers that settle every listed condition.
BatchOps == {"redeem_market_positions", "redeem_all_positions"}

VARIABLES
    balance,            \* chain: [Conds -> <<balance_yes, balance_no>>] of the Safe
    payoutDenominator,  \* chain: [Conds -> Nat], > 0 once the oracle resolved
    safeNonce,          \* chain: the Safe wallet's nonce
    mempool,            \* chain: the broadcast transactions not yet mined
    d,                  \* top level / batch driver frame
    rc,                 \* redeem_condition frame
    mc,                 \* merge_condition frame
    ex,                 \* _execute_safe_transaction frame
    environ,            \* the process environment (os.getenv)
    lst,                \* get_redeemable_positions frame and its caller's set
    sg                  \* the signature assembly of _execute_safe_transaction

chainVars == <<balance, payoutDenominator, safeNonce, mempool>>
progVars == <<d, rc, mc, ex>>
vars == <<balance, payoutDenominator, safeNonce, mempool, d, rc, mc, ex,
          environ, lst, sg>>

Min(a, b) == IF a <= b THEN a ELSE b

-----------------------------------------------------------------------------
(* Pure decisions of the code                                              *)

\* mutant: the test inverted
BothZeroInverted(balance_yes, balance_no) == balance_yes # 0 /\ balance_no # 0

\* `balance_yes == 0 and balance_no == 0`
BothZero(balance_yes, balance_no) == balance_yes = 0 /\ balance_no = 0

\* mutant: the amount taken from one outcome only
MergeAmountYes(balance_yes, balance_no) == balance_yes

\* `min(balance_yes, balance_no)`
MergeAmount(balance_yes, balance_no) == Min(balance_yes, balance_no)

\* mutant: a failed read counts as resolved
IsConditionResolvedFailOpen(readOk, payout_denominator) ==
    IF readOk THEN payout_denominator > 0 ELSE TRUE

\* _is_condition_resolved: payout_denominator > 0, False when the read raises
IsConditionResolved(readOk, payout_denominator) ==
    IF readOk THEN payout_denominator > 0 ELSE FALSE

\* mutant: any receipt counts as success
ReceiptOkAny(status) == TRUE

\* `return receipt["status"] == 1`
ReceiptOk(status) == status = 1

\* mutant: an unresolved condition is reported as a failure
UnresolvedResultFalse == FALSE

\* redeem_condition, not resolved: `return True`
UnresolvedResult == TRUE

\* mutant: the run is reported as success once the redeem step is reached
RedeemResultAlways(success) == TRUE

\* redeem_condition after the redeem submission: True if success else False
RedeemResult(success) == success

\* merge_condition after the merge submission: True if success else False
MergeResult(success) == success

\* mutant: the redeem names the first outcome only
RedeemIndexSetsYesOnly == {1}

\* redeem_condition: `index_sets = [1, 2]`, the outcomes the redeem burns
RedeemIndexSets == {1, 2}

\* merge_condition: `partition = [1, 2]`
MergePartition == {1, 2}

\* The two contracts a merge or a redeem call can be sent to (lines 27-28).
CONDITIONAL_TOKENS_FRAMEWORK_ADDRESS == "0x4D97DCd97eC945f40cF65F87097ACe5EA0476045"
NEG_RISK_ADAPTER_ADDRESS == "0xd91E80cF2E7be2e162c6513ceD06f1dD0dA35296"

\* mutant: every call goes to the standard framework
TargetAddressStandard(neg_risk) == CONDITIONAL_TOKENS_FRAMEWORK_ADDRESS

\* `to = NEG_RISK_ADAPTER_ADDRESS if neg_risk else
\* CONDITIONAL_TOKENS_FRAMEWORK_ADDRESS` (lines 315 and 373)
TargetAddress(neg_risk) ==
    IF neg_risk THEN NEG_RISK_ADAPTER_ADDRESS ELSE CONDITIONAL_TOKENS_FRAMEWORK_ADDRESS

\* The environments of the process: each variable set, or missing.
Environments == [PRIVATE_KEY : BOOLEAN, POLYMARKET_PROXY_ADDRESS : BOOLEAN]

\* mutant: the configuration is not looked at before the chain is
ConfigRaisesNever(env) == FALSE

\* _get_web3_and_account raises: Account.from_key(None), or
\* Web3.to_checksum_address(None)
ConfigRaises(env) == ~env.PRIVATE_KEY \/ ~env.POLYMARKET_PROXY_ADDRESS

Note(tr, e) == Append(tr, e)

-----------------------------------------------------------------------------
(* Returns.  A return is part of the step that causes it: the callee's     *)
(* frame is closed (its locals are dead and are cleared) and the caller    *)
(* runs on to its next chain interaction.                                  *)

NoCall == [kind |-> "none", to |-> "none", condition_id |-> "c1", amount |-> 0,
           index_sets |-> {}]

\* first: the balances of the run's first read (<<>> before it); trace: what
\* the run did so far
RcIdle == [pc |-> "idle", condition_id |-> "c1", neg_risk |-> FALSE, balance_yes |-> 0,
           balance_no |-> 0, ret |-> FALSE, first |-> <<>>, trace |-> <<>>]

\* sent: the number of transactions the run broadcast
McIdle == [pc |-> "idle", condition_id |-> "c1", neg_risk |-> FALSE, balance_yes |-> 0,
           balance_no |-> 0, amount_wei |-> 0, ret |-> FALSE, sent |-> 0]

\* mutant: the first failed run ends the batch
DriverAfterAbort(r) ==
    IF d.op \in BatchOps
    THEN LET s == d.successful + (IF r THEN 1 ELSE 0)
         IN  IF d.remaining = {} \/ ~r
             THEN [d EXCEPT !.successful = s, !.op = "idle", !.pc = "idle",
                            !.ret = <<s, Cardinality(d.condition_ids)>>,
                            !.condition_ids = {}, !.remaining = {}]
             ELSE [d EXCEPT !.successful = s]
    ELSE [d EXCEPT !.op = "idle"]

\* mutant: every run is counted, whatever it returned
DriverAfterCountAll(r) ==
    IF d.op \in BatchOps
    THEN LET s == d.successful + 1
         IN  IF d.remaining = {}
             THEN [d EXCEPT !.successful = s, !.op = "idle", !.pc = "idle",
                            !.ret = <<s, Cardinality(d.condition_ids)>>,
                            !.condition_ids = {}]
             ELSE [d EXCEPT !.successful = s]
    ELSE [d EXCEPT !.op = "idle"]

\* The driver after redeem_condition returned r: `successful += 1`, and the
\* batch returns (successful, len(condition_ids)) after the last condition.
DriverAfter(r) ==
    IF d.op \in BatchOps
    THEN LET s == d.successful + (IF r THEN 1 ELSE 0)
         IN  IF d.remaining = {}
             THEN [d EXCEPT !.successful = s, !.op = "idle", !.pc = "idle",
                            !.ret = <<s, Cardinality(d.condition_ids)>>,
                            !.condition_ids = {}]
             ELSE [d EXCEPT !.successful = s]
    ELSE [d EXCEPT !.op = "idle"]

\* redeem_condition returns r; rc0 is its frame at the return.
RcReturn(rc0, r) ==
    /\ rc' = [rc0 EXCEPT !.pc = "done", !.ret = r]
    /\ d' = DriverAfter(r)

\* redeem_condition goes on to the resolution check (line 293).
RcToResolution(rc0) ==
    /\ rc' = [rc0 EXCEPT !.pc = "resolve"]
    /\ d' = d

\* Lines 287-290 with the balances the frame holds.
RcStep2(rc0) ==
    IF BothZero(rc0.balance_yes, rc0.balance_no)
    THEN RcReturn(rc0, TRUE)
    ELSE RcToResolution(rc0)

\* mutant: a failed balance read is passed over, the run goes on with the
\* balances its frame holds
BalanceReadIgnored(rc0) ==
    RcToResolution([rc0 EXCEPT !.trace = Note(@, "balance_error")])

\* _get_position_balances raises in redeem_condition (line 268 or 282): the
\* except clause of lines 329-331 returns False
BalanceReadFailed(rc0) ==
    RcReturn([rc0 EXCEPT !.trace = Note(@, "balance_error")], FALSE)

\* mutant: a failed merge fails the run
AfterMergeFailedFatal(rc0) == RcReturn(rc0, FALSE)

\* redeem_condition after merge_condition returned False (line 285): the
\* balances of the first read are kept and the run goes on
AfterMergeFailed(rc0) == RcStep2(rc0)

\* merge_balanced_positions after the body of its loop (lines 512-529) for
\* one condition, df its frame then: the next condition, or
\* `return (successful, total_recovered)` after the last one.
MbAfter(df) ==
    LET df0 == [df EXCEPT !.condition_id = "c1", !.balance_yes = 0, !.merge_amount = 0]
    IN  IF df.remaining = {}
        THEN [df0 EXCEPT !.op = "idle", !.pc = "idle", !.condition_ids = {},
                         !.ret = <<df.successful, df.total_recovered>>]
        ELSE [df0 EXCEPT !.pc = "loop"]

\* Lines 521-526: merge_condition returned r to merge_balanced_positions.
\* total_recovered is kept in raw units (the code adds merge_amount / 10**6).
MbMerged(r) ==
    IF r
    THEN MbAfter([d EXCEPT !.successful = @ + 1, !.total_recovered = @ + d.merge_amount])
    ELSE MbAfter(d)

\* mutant: after a merge that returned True the run goes on with the
\* balances of its first read
AfterMergeSucceededStale(rc0) == RcStep2(rc0)

\* redeem_condition after merge_condition returned True (lines 280-282):
\* the balances are read again
AfterMergeSucceeded(rc0) ==
    /\ rc' = [rc0 EXCEPT !.pc = "rebal_yes"]
    /\ d' = d

\* merge_condition returns r, to redeem_condition (line 280), to
\* merge_balanced_positions (line 521) or to the caller of the public
\* operation.
McReturn(r) ==
    /\ mc' = [McIdle EXCEPT !.pc = "done", !.ret = r, !.sent = mc.sent]
    /\ IF rc.pc = "merging"
       THEN IF r
            THEN AfterMergeSucceeded([rc EXCEPT !.trace = Note(@, "merge_true")])
            ELSE AfterMergeFailed([rc EXCEPT !.trace = Note(@, "merge_false")])
       ELSE /\ rc' = rc
            /\ d' = IF d.op = "merge_balanced_positions"
                    THEN MbMerged(r)
                    ELSE [d EXCEPT !.op = "idle"]

\* mutant: a failed call is made again
ExReturnRetry(r, obs) ==
    IF r
    THEN /\ ex' = [ex EXCEPT !.pc = "idle", !.ret = r, !.obs = obs, !.call = NoCall]
         /\ IF mc.pc = "exec"
            THEN McReturn(MergeResult(r))
            ELSE /\ mc' = mc
                 /\ RcReturn([rc EXCEPT !.trace = Note(@, "redeem_true")], RedeemResult(r))
    ELSE /\ ex' = [ex EXCEPT !.pc = "nonce", !.ret = r, !.obs = obs]
         /\ UNCHANGED <<rc, mc, d>>

\* _execute_safe_transaction returns r having observed obs.
ExReturn(r, obs) ==
    /\ ex' = [ex EXCEPT !.pc = "idle", !.ret = r, !.obs = obs, !.call = NoCall]
    /\ IF mc.pc = "exec"
       THEN McReturn(MergeResult(r))
       ELSE /\ mc' = mc
            /\ RcReturn([rc EXCEPT !.trace =
                            Note(@, IF r THEN "redeem_true" ELSE "redeem_false")],
                        RedeemResult(r))

\* A call of _execute_safe_transaction with the encoded call.  The frame's
\* nonce and ret still hold the previous call's values until they are set.
ExCall(call) ==
    ex' = [ex EXCEPT !.pc = "nonce", !.call = call]

\* get_redeemable_positions not called
LstIdle == [pc |-> "idle", market_slug |-> <<>>, all_positions |-> <<>>,
            ret |-> <<>>, condition_ids |-> {}]

\* no signature assembled
SgIdle == [pc |-> "idle", signer |-> "k0", digest |-> 0, r |-> 0, s |-> 0, v |-> 0,
           signature |-> <<>>, decoded |-> <<>>, recovered |-> "none"]

\* No operation was called yet.
ProgInit ==
    /\ d = [op |-> "idle", ops |-> 0, pc |-> "idle", positions |-> <<>>,
            condition_ids |-> {}, remaining |-> {},
            successful |-> 0, ret |-> <<0, 0>>,
            \* the locals of merge_balanced_positions
            condition_id |-> "c1", balance_yes |-> 0,
            merge_amount |-> 0, total_recovered |-> 0]
    /\ rc = RcIdle
    /\ mc = McIdle
    /\ ex = [pc |-> "idle", nonce |-> 0, call |-> NoCall, ret |-> FALSE,
             obs |-> "none", receipt |-> "none"]

-----------------------------------------------------------------------------
Init ==
    \* c1 holds any position up to MaxBal and is resolved or not; c2 is a
    \* listed condition with nothing left to settle, resolved
    /\ balance \in {b \in [Conds -> (0..MaxBal) \X (0..MaxBal)] : b["c2"] = <<0, 0>>}
    /\ payoutDenominator \in {p \in [Conds -> {0, 1}] : p["c2"] = 1}
    /\ safeNonce = 0
    /\ mempool = {}
    /\ ProgInit
    /\ environ \in Environments
    /\ lst = LstIdle
    /\ sg = SgIdle

-----------------------------------------------------------------------------
(* Public operations                                                       *)

\* mutant: a run begins with the resolution check
RcStartAtResolution(c) ==
    rc' = [RcIdle EXCEPT !.pc = "resolve", !.condition_id = c]

\* redeem_condition(condition_id) is entered
RcStart(c) ==
    rc' = [RcIdle EXCEPT !.pc = "bal_yes", !.condition_id = c]

\* merge_condition(condition_id, neg_risk) called directly
CallMergeConditionWith(c, neg_risk) ==
    /\ d.op = "idle" /\ d.ops < MaxOps
    /\ d' = [d EXCEPT !.op = "merge_condition", !.ops = @ + 1]
    /\ mc' = [McIdle EXCEPT !.pc = "bal_yes", !.condition_id = c, !.neg_risk = neg_risk]
    /\ rc' = RcIdle
    /\ UNCHANGED <<balance, payoutDenominator, safeNonce, mempool, ex, environ, lst, sg>>

\* merge_condition(condition_id), neg_risk left at its default
CallMergeCondition(c) == CallMergeConditionWith(c, FALSE)

\* redeem_condition(condition_id, neg_risk) called directly
CallRedeemCondition(c, neg_risk) ==
    /\ d.op = "idle" /\ d.ops < MaxOps
    /\ d' = [d EXCEPT !.op = "redeem_condition", !.ops = @ + 1]
    /\ rc' = [RcIdle EXCEPT !.pc = "bal_yes", !.condition_id = c, !.neg_risk = neg_risk]
    /\ mc' = McIdle
    /\ UNCHANGED <<balance, payoutDenominator, safeNonce, mempool, ex, environ, lst, sg>>

\* The lists of positions a batch driver can be handed, with repeated and
\* with missing condition ids; of a position the drivers read the
\* conditionId only.
PositionLists ==
    UNION {[1..n -> [conditionId : Conds \cup {NoId}]] : n \in 0..MaxPositions}

\* The lists that name every condition once at most and have no position
\* without a condition id: one list or two for each set of conditions.
PlainPositionLists ==
    {ps \in UNION {[1..n -> [conditionId : Conds]] : n \in 0..Cardinality(Conds)} :
        \A i, j \in 1..Len(ps) : ps[i] = ps[j] => i = j}

\* `set(p.get("conditionId") for p in positions if p.get("conditionId"))`
ConditionIds(positions) ==
    {positions[i].conditionId : i \in 1..Len(positions)} \ {NoId}

\* Lines 409 and 443: a batch driver op is called and
\* get_redeemable_positions answers with positions.
CallBatch(op, positions) ==
    /\ d.op = "idle" /\ d.ops < MaxOps
    /\ d' = [d EXCEPT !.op = op, !.ops = @ + 1, !.pc = "ids", !.positions = positions,
                      !.condition_ids = {}, !.remaining = {}, !.successful = 0]
    /\ rc' = RcIdle
    /\ mc' = McIdle
    /\ UNCHANGED <<balance, payoutDenominator, safeNonce, mempool, ex, environ, lst, sg>>

\* redeem_market_positions(market_slug), get_redeemable_positions(market_slug)
\* having returned positions
CallRedeemMarketPositions(positions) ==
    CallBatch("redeem_market_positions", positions)

\* redeem_all_positions(), get_redeemable_positions() having returned
\* positions
CallRedeemAllPositions(positions) ==
    CallBatch("redeem_all_positions", positions)

\* Lines 411-422 and 445-456: without positions, or without a condition id
\* among them, the driver returns (0, 0) at once; else the loop over the
\* set of condition ids begins.
DriverIds ==
    /\ d.op \in BatchOps /\ d.pc = "ids"
    /\ LET condition_ids == ConditionIds(d.positions)
       IN  d' = IF condition_ids = {}
                THEN [d EXCEPT !.op = "idle", !.pc = "idle", !.positions = <<>>,
                               !.ret = <<0, 0>>]
                ELSE [d EXCEPT !.pc = "loop", !.positions = <<>>,
                               !.condition_ids = condition_ids,
                               !.remaining = condition_ids]
    /\ UNCHANGED <<balance, payoutDenominator, safeNonce, mempool, rc, mc, ex,
                   environ, lst, sg>>

\* `for condition_id in condition_ids: redeem_condition(condition_id)`
DriverNext(c) ==
    /\ d.op \in BatchOps /\ d.pc = "loop"
    /\ rc.pc \in {"idle", "done"}
    /\ c \in d.remaining
    /\ d' = [d EXCEPT !.remaining = @ \ {c}]
    /\ RcStart(c)
    /\ mc' = McIdle
    /\ UNCHANGED <<balance, payoutDenominator, safeNonce, mempool, ex, environ, lst, sg>>

-----------------------------------------------------------------------------
(* redeem_condition                                                        *)

\* Lines 265-268 and 282: on entry _get_web3_and_account, which raises
\* into the except clause of lines 329-331 when the configuration is
\* missing; then _get_position_balances, the balanceOf read of outcome 1
RcReadYes(ok) ==
    /\ rc.pc \in {"bal_yes", "rebal_yes"}
    /\ IF rc.pc = "bal_yes" /\ ConfigRaises(environ)
       THEN RcReturn([rc EXCEPT !.trace = Note(@, "config_error")], FALSE)
       ELSE IF ok
       THEN /\ rc' = [rc EXCEPT !.balance_yes = balance[rc.condition_id][1],
                                !.pc = IF rc.pc = "bal_yes" THEN "bal_no" ELSE "rebal_no"]
            /\ d' = d
       ELSE BalanceReadFailed(rc)
    /\ UNCHANGED <<balance, payoutDenominator, safeNonce, mempool, mc, ex, environ, lst, sg>>

\* the balanceOf read of outcome 2 of the first read, then lines 270-280
RcReadNo(ok) ==
    /\ rc.pc = "bal_no"
    /\ IF ok
       THEN LET rc0 == [rc EXCEPT !.balance_no = balance[rc.condition_id][2],
                                  !.first = <<rc.balance_yes, balance[rc.condition_id][2]>>,
                                  !.trace = Note(@, "balances")]
            IN  IF BothZero(rc0.balance_yes, rc0.balance_no)
                THEN RcReturn(rc0, TRUE) /\ mc' = mc
                ELSE IF MergeAmount(rc0.balance_yes, rc0.balance_no) > 0
                     THEN /\ rc' = [rc0 EXCEPT !.pc = "merging",
                                               !.trace = Note(@, "merge_call")]
                          /\ mc' = [McIdle EXCEPT !.pc = "bal_yes",
                                                  !.condition_id = rc.condition_id,
                                                  !.neg_risk = rc.neg_risk]
                          /\ d' = d
                     ELSE RcStep2(rc0) /\ mc' = mc
       ELSE BalanceReadFailed(rc) /\ mc' = mc
    /\ UNCHANGED <<balance, payoutDenominator, safeNonce, mempool, ex, environ, lst, sg>>

\* the balanceOf read of outcome 2 of the re-read (line 282), then 287-290
RcRereadNo(ok) ==
    /\ rc.pc = "rebal_no"
    /\ IF ok
       THEN RcStep2([rc EXCEPT !.balance_no = balance[rc.condition_id][2],
                               !.trace = Note(@, "rebalances")])
       ELSE BalanceReadFailed(rc)
    /\ UNCHANGED <<balance, payoutDenominator, safeNonce, mempool, mc, ex, environ, lst, sg>>

\* lines 292-319: the resolution check, then return or the redeem call
RcCheckResolved(ok) ==
    /\ rc.pc = "resolve"
    /\ LET is_resolved == IsConditionResolved(ok, payoutDenominator[rc.condition_id])
           ev == IF ~ok THEN "resolution_error"
                 ELSE IF payoutDenominator[rc.condition_id] > 0 THEN "resolved"
                 ELSE "unresolved"
           rc0 == [rc EXCEPT !.trace = Note(@, ev)]
       IN  IF ~is_resolved
           THEN RcReturn(rc0, UnresolvedResult) /\ ex' = ex
           ELSE /\ rc' = [rc0 EXCEPT !.pc = "redeeming",
                                     !.trace = Note(@, "redeem_call")]
                /\ d' = d
                /\ ExCall([kind |-> "redeem", to |-> TargetAddress(rc.neg_risk),
                           condition_id |-> rc.condition_id,
                           amount |-> 0, index_sets |-> RedeemIndexSets])
    /\ UNCHANGED <<balance, payoutDenominator, safeNonce, mempool, mc, environ, lst, sg>>

-----------------------------------------------------------------------------
(* merge_condition                                                         *)

\* Lines 349-352: _get_web3_and_account, which raises into the except
\* clause of lines 387-389 when the configuration is missing; then
\* _get_position_balances, the balanceOf read of outcome 1
McReadYes(ok) ==
    /\ mc.pc = "bal_yes"
    /\ IF ConfigRaises(environ)
       THEN McReturn(FALSE)
       ELSE IF ok
       THEN /\ mc' = [mc EXCEPT !.balance_yes = balance[mc.condition_id][1],
                                !.pc = "bal_no"]
            /\ UNCHANGED <<rc, d>>
       ELSE McReturn(FALSE)
    /\ UNCHANGED <<balance, payoutDenominator, safeNonce, mempool, ex, environ, lst, sg>>

\* the balanceOf read of outcome 2, then lines 353-377
McReadNo(ok) ==
    /\ mc.pc = "bal_no"
    /\ IF ok
       THEN LET balance_no == balance[mc.condition_id][2]
                amount_wei == MergeAmount(mc.balance_yes, balance_no)
            IN  IF amount_wei = 0
                THEN McReturn(TRUE) /\ ex' = ex
                ELSE /\ mc' = [mc EXCEPT !.balance_no = balance_no,
                                         !.amount_wei = amount_wei, !.pc = "exec"]
                     /\ ExCall([kind |-> "merge", to |-> TargetAddress(mc.neg_risk),
                                condition_id |-> mc.condition_id,
                                amount |-> amount_wei, index_sets |-> MergePartition])
                     /\ UNCHANGED <<rc, d>>
       ELSE McReturn(FALSE) /\ ex' = ex
    /\ UNCHANGED <<balance, payoutDenominator, safeNonce, mempool, environ, lst, sg>>

-----------------------------------------------------------------------------
(* _execute_safe_transaction                                               *)

\* mutant: the nonce of the previous call is used again
ExecReadNonceCached(ok) ==
    /\ ex.pc = "nonce"
    /\ IF ok
       THEN /\ ex' = [ex EXCEPT !.pc = "send"]
            /\ UNCHANGED <<rc, mc, d>>
       ELSE ExReturn(FALSE, "error")
    /\ UNCHANGED <<balance, payoutDenominator, safeNonce, mempool, environ, lst, sg>>

\* line 131: safe.functions.nonce().call()
ExecReadNonce(ok) ==
    /\ ex.pc = "nonce"
    /\ IF ok
       THEN /\ ex' = [ex EXCEPT !.pc = "send", !.nonce = safeNonce]
            /\ UNCHANGED <<rc, mc, d>>
       ELSE ExReturn(FALSE, "error")
    /\ UNCHANGED <<balance, payoutDenominator, safeNonce, mempool, environ, lst, sg>>

\* What can raise between the nonce read and the broadcast.
FailPoints == {"getTransactionHash", "sign", "build_transaction", "send_raw_transaction"}

\* lines 133-172, all succeeding: the signed execTransaction is broadcast.
\* The outer transaction carries the signer's current transaction count
\* (line 166), as does every transaction still in the mempool.
ExecSend ==
    /\ ex.pc = "send"
    /\ mempool' = {[t EXCEPT !.cur = FALSE] : t \in mempool}
                    \cup {[kind |-> ex.call.kind, to |-> ex.call.to,
                           condition_id |-> ex.call.condition_id,
                           amount |-> ex.call.amount, index_sets |-> ex.call.index_sets,
                           nonce |-> ex.nonce, cur |-> TRUE]}
    /\ ex' = [ex EXCEPT !.pc = "wait", !.receipt = "pending"]
    /\ rc' = IF rc.pc \in {"merging", "redeeming"}
             THEN [rc EXCEPT !.trace = Note(@, IF ex.call.kind = "merge"
                                               THEN "submit_merge" ELSE "submit_redeem")]
             ELSE rc
    /\ mc' = IF mc.pc = "exec" THEN [mc EXCEPT !.sent = @ + 1] ELSE mc
    /\ UNCHANGED <<balance, payoutDenominator, safeNonce, d, environ, lst, sg>>

\* lines 133-172, one of the calls raising: nothing is broadcast
ExecSendFails(at) ==
    /\ ex.pc = "send"
    /\ at \in FailPoints
    /\ ExReturn(FALSE, "error")
    /\ UNCHANGED <<balance, payoutDenominator, safeNonce, mempool, environ, lst, sg>>

\* lines 175-177: the receipt arrived within the timeout
ExecReceipt ==
    /\ ex.pc = "wait"
    /\ ex.receipt \in {"ok", "revert", "stale"}
    /\ LET status == IF ex.receipt = "ok" THEN 1 ELSE 0
       IN  ExReturn(ReceiptOk(status), IF status = 1 THEN "status1" ELSE "status0")
    /\ UNCHANGED <<balance, payoutDenominator, safeNonce, mempool, environ, lst, sg>>

\* line 175 raising: no receipt within 60 seconds, or the RPC failing
ExecTimeout(why) ==
    /\ ex.pc = "wait"
    /\ why \in {"timeout", "error"}
    /\ why = "timeout" => ex.receipt \in {"pending", "dropped"}
    /\ ExReturn(FALSE, why)
    /\ UNCHANGED <<balance, payoutDenominator, safeNonce, mempool, environ, lst, sg>>

-----------------------------------------------------------------------------
(* The chain                                                               *)

\* The inner call of a Safe transaction succeeds: mergePositions needs the
\* amount on both outcomes, redeemPositions needs the condition resolved.
InnerOk(t) ==
    IF t.kind = "merge"
    THEN /\ t.amount <= balance[t.condition_id][1]
         /\ t.amount <= balance[t.condition_id][2]
    ELSE payoutDenominator[t.condition_id] > 0

\* Balances after the inner call of t: a merge burns the amount of every
\* outcome, a redeem burns the whole balance of each outcome it names.
Settle(t) ==
    IF t.kind = "merge"
    THEN [balance EXCEPT ![t.condition_id] = <<@[1] - t.amount, @[2] - t.amount>>]
    ELSE [balance EXCEPT ![t.condition_id] =
              <<IF 1 \in t.index_sets THEN 0 ELSE @[1],
                IF 2 \in t.index_sets THEN 0 ELSE @[2]>>]

\* A transaction of the mempool is mined.  The Safe executes it only when it
\* was signed for the Safe's current nonce; with safeTxGas = 0 and
\* gasPrice = 0 a failing inner call reverts the whole transaction.  All
\* transactions of the mempool carry the same account nonce, so mining one
\* makes the others unmineable.
Mine(t, reverts) ==
    /\ t \in mempool
    /\ LET stale == t.nonce # safeNonce
           ok == ~stale /\ InnerOk(t) /\ ~reverts
           result == IF ok THEN "ok" ELSE IF stale THEN "stale" ELSE "revert"
       IN  /\ ex' = [ex EXCEPT !.receipt =
                        IF t.cur THEN result
                        ELSE IF \E u \in mempool : u.cur THEN "dropped" ELSE @]
           /\ balance' = IF ok THEN Settle(t) ELSE balance
           /\ safeNonce' = IF ok THEN safeNonce + 1 ELSE safeNonce
    /\ mempool' = {}
    /\ UNCHANGED <<payoutDenominator, d, rc, mc, environ, lst, sg>>

\* The oracle reports the payouts of a condition.
Resolve(c) ==
    /\ payoutDenominator[c] = 0
    /\ payoutDenominator' = [payoutDenominator EXCEPT ![c] = 1]
    /\ UNCHANGED <<balance, safeNonce, mempool, d, rc, mc, ex, environ, lst, sg>>

-----------------------------------------------------------------------------
Next ==
    \/ \E c \in Conds : CallMergeCondition(c)
    \/ \E positions \in PlainPositionLists : CallRedeemMarketPositions(positions)
    \/ DriverIds
    \/ \E c \in Conds : DriverNext(c)
    \/ \E ok \in BOOLEAN : RcReadYes(ok)
    \/ \E ok \in BOOLEAN : RcReadNo(ok)
    \/ \E ok \in BOOLEAN : RcRereadNo(ok)
    \/ \E ok \in BOOLEAN : RcCheckResolved(ok)
    \/ \E ok \in BOOLEAN : McReadYes(ok)
    \/ \E ok \in BOOLEAN : McReadNo(ok)
    \/ \E ok \in BOOLEAN : ExecReadNonce(ok)
    \/ ExecSend
    \/ \E at \in FailPoints : ExecSendFails(at)
    \/ ExecReceipt
    \/ \E why \in {"timeout", "error"} : ExecTimeout(why)
    \/ \E t \in mempool, reverts \in BOOLEAN : Mine(t, reverts)
    \/ \E c \in Conds : Resolve(c)

Spec == Init /\ [][Next]_vars

-----------------------------------------------------------------------------
(* The two batch drivers over every list of positions.  Both conditions    *)
(* hold a balance or none, on one outcome only, so that no run merges; c1   *)
(* is resolved, c2 is resolved or not.                                     *)

InitBatch ==
    /\ balance \in [Conds -> {<<0, 0>>, <<1, 0>>}]
    /\ payoutDenominator \in {p \in [Conds -> {0, 1}] : p["c1"] = 1}
    /\ safeNonce = 0
    /\ mempool = {}
    /\ ProgInit
    /\ environ = [PRIVATE_KEY |-> TRUE, POLYMARKET_PROXY_ADDRESS |-> TRUE]
    /\ lst = LstIdle
    /\ sg = SgIdle

NextBatch ==
    \/ \E positions \in PositionLists : CallRedeemMarketPositions(positions)
    \/ \E positions \in PositionLists : CallRedeemAllPositions(positions)
    \/ DriverIds
    \/ \E c \in Conds : DriverNext(c)
    \/ \E ok \in BOOLEAN : RcReadYes(ok)
    \/ \E ok \in BOOLEAN : RcReadNo(ok)
    \/ \E ok \in BOOLEAN : RcCheckResolved(ok)
    \/ \E ok \in BOOLEAN : ExecReadNonce(ok)
    \/ ExecSend
    \/ \E at \in FailPoints : ExecSendFails(at)
    \/ ExecReceipt
    \/ \E why \in {"timeout", "error"} : ExecTimeout(why)
    \/ \E t \in mempool, reverts \in BOOLEAN : Mine(t, reverts)

SpecBatch == InitBatch /\ [][NextBatch]_vars

-----------------------------------------------------------------------------
(* merge_balanced_positions                                                *)

\* Lines 481-509: the mergeable positions are fetched (ok: the request
\* answered with status 200).  A failed request, no position, no condition
\* id, or a missing configuration (line 509, caught at line 538) make the
\* operation return (0, 0.0) at once; else the loop over the set begins.
CallMergeBalancedPositions(ok, positions) ==
    /\ d.op = "idle" /\ d.ops < MaxOps
    /\ LET condition_ids == ConditionIds(positions)
       IN  d' = IF ~ok \/ condition_ids = {} \/ ConfigRaises(environ)
                THEN [d EXCEPT !.ops = @ + 1, !.ret = <<0, 0>>, !.condition_ids = {},
                               !.remaining = {}, !.successful = 0]
                ELSE [d EXCEPT !.op = "merge_balanced_positions", !.ops = @ + 1,
                               !.condition_ids = condition_ids,
                               !.remaining = condition_ids, !.successful = 0,
                               !.total_recovered = 0, !.pc = "loop"]
    /\ rc' = RcIdle
    /\ mc' = McIdle
    /\ UNCHANGED <<chainVars, ex, environ, lst, sg>>

\* Lines 511-514: the next condition of the set, and the balanceOf read of
\* its outcome 1; a read that raises is logged (line 529) and the loop
\* goes on.
MbReadYes(c, ok) ==
    /\ d.op = "merge_balanced_positions" /\ d.pc = "loop"
    /\ c \in d.remaining
    /\ LET df == [d EXCEPT !.remaining = @ \ {c}, !.condition_id = c]
       IN  d' = IF ok
                THEN [df EXCEPT !.pc = "bal_no", !.balance_yes = balance[c][1]]
                ELSE MbAfter(df)
    /\ mc' = McIdle
    /\ UNCHANGED <<chainVars, rc, ex, environ, lst, sg>>

\* Lines 514-521: the balanceOf read of outcome 2, merge_amount, and the
\* call of merge_condition when merge_amount > 0.
MbReadNo(ok) ==
    /\ d.op = "merge_balanced_positions" /\ d.pc = "bal_no"
    /\ IF ok
       THEN LET merge_amount == MergeAmount(d.balance_yes, balance[d.condition_id][2])
            IN  IF merge_amount > 0
                THEN /\ d' = [d EXCEPT !.pc = "merging", !.merge_amount = merge_amount]
                     /\ mc' = [McIdle EXCEPT !.pc = "bal_yes",
                                             !.condition_id = d.condition_id]
                ELSE d' = MbAfter(d) /\ mc' = mc
       ELSE d' = MbAfter(d) /\ mc' = mc
    /\ UNCHANGED <<chainVars, rc, ex, environ, lst, sg>>

\* The wallet holds any balances up to MaxBal of each condition; nothing is
\* resolved.
InitMerge ==
    /\ balance \in [Conds -> (0..MaxBal) \X (0..MaxBal)]
    /\ payoutDenominator = [c \in Conds |-> 0]
    /\ safeNonce = 0
    /\ mempool = {}
    /\ ProgInit
    /\ environ \in Environments
    /\ lst = LstIdle
    /\ sg = SgIdle

NextMerge ==
    \/ \E c \in Conds : CallMergeCondition(c)
    \/ \E ok \in BOOLEAN, positions \in PositionLists :
          CallMergeBalancedPositions(ok, positions)
    \/ \E c \in Conds, ok \in BOOLEAN : MbReadYes(c, ok)
    \/ \E ok \in BOOLEAN : MbReadNo(ok)
    \/ \E ok \in BOOLEAN : McReadYes(ok)
    \/ \E ok \in BOOLEAN : McReadNo(ok)
    \/ \E ok \in BOOLEAN : ExecReadNonce(ok)
    \/ ExecSend
    \/ \E at \in FailPoints : ExecSendFails(at)
    \/ ExecReceipt
    \/ \E why \in {"timeout", "error"} : ExecTimeout(why)
    \/ \E t \in mempool, reverts \in BOOLEAN : Mine(t, reverts)

SpecMerge == InitMerge /\ [][NextMerge]_vars

-----------------------------------------------------------------------------
(* Every public operation, the per-condition ones with either neg_risk     *)
(* flag.  c1 is resolved and holds a balance of both outcomes, so that a   *)
(* run merges and redeems; c2 holds nothing.                               *)

InitNegRisk ==
    /\ balance \in {b \in [Conds -> (0..MaxBal) \X (0..MaxBal)] :
                       /\ b["c1"] \in {<<1, 1>>, <<MaxBal, 1>>}
                       /\ b["c2"] = <<0, 0>>}
    /\ payoutDenominator = [c \in Conds |-> 1]
    /\ safeNonce = 0
    /\ mempool = {}
    /\ ProgInit
    /\ environ = [PRIVATE_KEY |-> TRUE, POLYMARKET_PROXY_ADDRESS |-> TRUE]
    /\ lst = LstIdle
    /\ sg = SgIdle

NextNegRisk ==
    \/ \E c \in Conds, neg_risk \in BOOLEAN : CallRedeemCondition(c, neg_risk)
    \/ \E c \in Conds, neg_risk \in BOOLEAN : CallMergeConditionWith(c, neg_risk)
    \/ \E positions \in PlainPositionLists : CallRedeemMarketPositions(positions)
    \/ \E positions \in PlainPositionLists : CallRedeemAllPositions(positions)
    \/ \E positions \in PlainPositionLists : CallMergeBalancedPositions(TRUE, positions)
    \/ DriverIds
    \/ \E c \in Conds : DriverNext(c)
    \/ \E c \in Conds, ok \in BOOLEAN : MbReadYes(c, ok)
    \/ \E ok \in BOOLEAN : MbReadNo(ok)
    \/ \E ok \in BOOLEAN : RcReadYes(ok)
    \/ \E ok \in BOOLEAN : RcReadNo(ok)
    \/ \E ok \in BOOLEAN : RcRereadNo(ok)
    \/ \E ok \in BOOLEAN : RcCheckResolved(ok)
    \/ \E ok \in BOOLEAN : McReadYes(ok)
    \/ \E ok \in BOOLEAN : McReadNo(ok)
    \/ \E ok \in BOOLEAN : ExecReadNonce(ok)
    \/ ExecSend
    \/ \E at \in FailPoints : ExecSendFails(at)
    \/ ExecReceipt
    \/ \E why \in {"timeout", "error"} : ExecTimeout(why)
    \/ \E t \in mempool, reverts \in BOOLEAN : Mine(t, reverts)

SpecNegRisk == InitNegRisk /\ [][NextNegRisk]_vars

-----------------------------------------------------------------------------
(* get_redeemable_positions, called by redeem_market_positions             *)
(*                                                                         *)
(* A slug is the sequence of its characters, the empty sequence standing   *)
(* for a missing (None) or empty slug; a position is its conditionId and   *)
(* its slug.                                                               *)

\* Longest answer of the listing service to the mergeable query, and to the
\* query for all positions.
MaxMergeable == 1
MaxListed == 2

NoSlug == <<>>

\* The slugs of listed positions: a market, its sibling of the same series,
\* a market of another series, and none.
PositionSlugs == {<<"a", "-", "1">>, <<"a", "-", "2">>, <<"b", "-", "1">>, NoSlug}

\* The market_slug arguments.
MarketSlugs == {<<"a", "-", "1">>, <<"a">>, <<"b", "-", "2">>, NoSlug}

\* The positions the service lists: each condition under any slug, and a
\* position without a condition id under the market a-1.
ListedPositions ==
    {p \in [conditionId : Conds \cup {NoId}, slug : PositionSlugs] :
        p.conditionId = NoId => p.slug = <<"a", "-", "1">>}

\* The answers of the listing service: a list of positions, or a failure
\* (the request raising, or a status other than 200).
Answers(maxLen) ==
    {[ok |-> FALSE, positions |-> <<>>]}
        \cup {[ok |-> TRUE, positions |-> ps] :
                 ps \in UNION {[1..n -> ListedPositions] : n \in 0..maxLen}}

\* `sub in s` of two strings
Contains(sub, s) ==
    \E i \in 0..(Len(s) - Len(sub)) : SubSeq(s, i + 1, i + Len(sub)) = sub

\* mutant: the whole market slug is the pattern
BasePatternWhole(market_slug) == market_slug

\* `market_slug.rsplit('-', 1)[0] if '-' in market_slug else market_slug`
BasePattern(market_slug) ==
    IF \E i \in 1..Len(market_slug) : market_slug[i] = "-"
    THEN LET cut == CHOOSE i \in 1..Len(market_slug) :
                        /\ market_slug[i] = "-"
                        /\ \A j \in (i + 1)..Len(market_slug) : market_slug[j] # "-"
         IN  SubSeq(market_slug, 1, cut - 1)
    ELSE market_slug

\* Lines 77-86: the positions kept for market_slug
FilterBySlug(all_positions, market_slug) ==
    IF market_slug = NoSlug
    THEN all_positions
    ELSE LET base_pattern == BasePattern(market_slug)
             Partial(p) == p.slug # NoSlug /\ Contains(base_pattern, p.slug)
             Exact(p) == p.slug = market_slug
             filtered == SelectSeq(all_positions, Partial)
         IN  IF filtered # <<>> THEN filtered ELSE SelectSeq(all_positions, Exact)

\* Lines 50-58: the mergeable positions are fetched; a failure is logged
\* and passed over.
FetchMergeable(answer) ==
    /\ lst.pc = "fetch_mergeable"
    /\ lst' = [lst EXCEPT !.pc = "fetch_all",
                          !.all_positions = IF answer.ok THEN answer.positions ELSE <<>>]
    /\ UNCHANGED <<chainVars, progVars, environ, sg>>

\* Lines 61-88: all positions are fetched and those of a conditionId not
\* yet listed are appended; the list is filtered and returned to
\* redeem_market_positions, which takes the set of condition ids (line 416).
FetchAll(answer) ==
    /\ lst.pc = "fetch_all"
    /\ LET existing_conditions ==
               {lst.all_positions[i].conditionId : i \in 1..Len(lst.all_positions)}
           New(p) == p.conditionId \notin existing_conditions
           all_positions == IF answer.ok
                            THEN lst.all_positions \o SelectSeq(answer.positions, New)
                            ELSE lst.all_positions
           ret == FilterBySlug(all_positions, lst.market_slug)
       IN  lst' = [lst EXCEPT !.pc = "done", !.all_positions = all_positions,
                              !.ret = ret, !.condition_ids = ConditionIds(ret)]
    /\ UNCHANGED <<chainVars, progVars, environ, sg>>

\* redeem_market_positions(market_slug), or redeem_all_positions() when
\* market_slug is none, has called get_redeemable_positions; the chain is
\* not involved.
InitList ==
    /\ balance = [c \in Conds |-> <<0, 0>>]
    /\ payoutDenominator = [c \in Conds |-> 0]
    /\ safeNonce = 0
    /\ mempool = {}
    /\ ProgInit
    /\ environ = [PRIVATE_KEY |-> TRUE, POLYMARKET_PROXY_ADDRESS |-> TRUE]
    /\ lst \in {[LstIdle EXCEPT !.pc = "fetch_mergeable", !.market_slug = m] :
                    m \in MarketSlugs}
    /\ sg = SgIdle

NextList ==
    \/ \E answer \in Answers(MaxMergeable) : FetchMergeable(answer)
    \/ \E answer \in Answers(MaxListed) : FetchAll(answer)

SpecList == InitList /\ [][NextList]_vars

-----------------------------------------------------------------------------
(* The signature of _execute_safe_transaction (lines 148-153, 163)         *)
(*                                                                         *)
(* A byte string is the sequence of its bytes (0..255).  r and s are       *)
(* 256-bit numbers in the program; the values here are below 2^31, so the  *)
(* upper 28 bytes of each are 0.                                           *)

Signers == {"k0", "k1"}
Digests == {0, 1}
SigScalars == {1, 255, 256, 65535, 65536, 16777219, 2147483647}
SigRecoveryIds == {27, 28}

\* The signer a signature (r, s, v) over digest verifies for: a stand-in for
\* the curve's public-key recovery, which is a function of these four.
Recover(digest, r, s, v) ==
    IF (digest + (r % 2) + (s % 2) + v) % 2 = 0 THEN "k0" ELSE "k1"

RECURSIVE ShiftRight(_, _)
\* n with its k lowest bytes dropped
ShiftRight(n, k) == IF k = 0 THEN n ELSE ShiftRight(n \div 256, k - 1)

\* mutant: the lowest byte first
ToBytesLittle(n, length) ==
    [i \in 1..length |-> ShiftRight(n, i - 1) % 256]

\* `n.to_bytes(length, byteorder="big")`
ToBytesBig(n, length) ==
    [i \in 1..length |-> ShiftRight(n, length - i) % 256]

RECURSIVE FromBytesBig(_)
\* the number a big-endian byte string stands for
FromBytesBig(bs) ==
    IF bs = <<>> THEN 0
    ELSE FromBytesBig(SubSeq(bs, 1, Len(bs) - 1)) * 256 + bs[Len(bs)]

\* Lines 150-153: `signature = r + s + v`
SigAssemble ==
    /\ sg.pc = "signed"
    /\ sg' = [sg EXCEPT !.pc = "assembled",
                        !.signature = ToBytesBig(sg.r, 32) \o ToBytesBig(sg.s, 32)
                                          \o ToBytesBig(sg.v, 1)]
    /\ UNCHANGED <<chainVars, progVars, environ, lst>>

\* The wallet splits the blob it is passed (line 163) into r, s, v and
\* recovers the signer.
SigDecompose ==
    /\ sg.pc = "assembled"
    /\ LET r == FromBytesBig(SubSeq(sg.signature, 1, 32))
           s == FromBytesBig(SubSeq(sg.signature, 33, 64))
           v == FromBytesBig(SubSeq(sg.signature, 65, Len(sg.signature)))
       IN  sg' = [sg EXCEPT !.pc = "checked", !.decoded = <<r, s, v>>,
                            !.recovered = Recover(sg.digest, r, s, v)]
    /\ UNCHANGED <<chainVars, progVars, environ, lst>>

\* Line 148: account.unsafe_sign_hash(hash_bytes) has returned (r, s, v), a
\* signature of the account over the transaction hash.
InitSig ==
    /\ balance = [c \in Conds |-> <<0, 0>>]
    /\ payoutDenominator = [c \in Conds |-> 0]
    /\ safeNonce = 0
    /\ mempool = {}
    /\ ProgInit
    /\ environ = [PRIVATE_KEY |-> TRUE, POLYMARKET_PROXY_ADDRESS |-> TRUE]
    /\ lst = LstIdle
    /\ sg \in {[SgIdle EXCEPT !.pc = "signed", !.digest = h, !.r = r, !.s = s, !.v = v,
                               !.signer = Recover(h, r, s, v)] :
                   h \in Digests, r \in SigScalars, s \in SigScalars,
                   v \in SigRecoveryIds}

NextSig ==
    \/ SigAssemble
    \/ SigDecompose

SpecSig == InitSig /\ [][NextSig]_vars

-----------------------------------------------------------------------------
(* Properties                                                              *)

Events(tr) == {tr[i] : i \in 1..Len(tr)}

Last(tr) == tr[Len(tr)]

RedeemEvents == {"redeem_call", "submit_redeem", "redeem_true", "redeem_false"}

\* C1: in a run of redeem_condition the redeem call is made, and a
\* redeemPositions transaction is broadcast, only after the payoutDenominator
\* read of that run succeeded with a value > 0; a run whose read failed makes
\* no redeem call, whatever the balances are.
C1_RedeemOnlyAfterResolvedRead ==
    /\ \A i \in 1..Len(rc.trace) :
          rc.trace[i] \in RedeemEvents => \E j \in 1..(i - 1) : rc.trace[j] = "resolved"
    /\ "resolution_error" \in Events(rc.trace) => Events(rc.trace) \cap RedeemEvents = {}
    /\ ex.call.kind = "redeem" => "resolved" \in Events(rc.trace)
    /\ \A t \in mempool : t.cur /\ t.kind = "redeem" /\ rc.pc = "redeeming"
                              => "resolved" \in Events(rc.trace)

\* C1 witness: the condition is resolved on chain and a balance remains, but
\* the run's resolution read failed and the run ended without a redeem.
C1_Witness ==
    /\ rc.pc = "done"
    /\ Len(rc.trace) > 0 /\ Last(rc.trace) = "resolution_error"
    /\ payoutDenominator[rc.condition_id] > 0
    /\ balance[rc.condition_id] # <<0, 0>>

\* C2: a run of redeem_condition whose first balance read is (0, 0) returns
\* True at once: it calls neither merge_condition nor
\* _execute_safe_transaction, so it reads no nonce and broadcasts nothing,
\* on the first invocation and on every later one.
C2_ZeroBalanceNoOp ==
    rc.first = <<0, 0>> =>
        /\ rc.pc = "done"
        /\ rc.ret = TRUE
        /\ rc.trace = <<"balances">>
        /\ ex.pc = "idle" /\ mc.pc \in {"idle", "done"}

\* C2 witness: the second invocation on a condition with nothing to settle.
C2_Witness ==
    /\ d.ops = 2
    /\ rc.pc = "done" /\ rc.first = <<0, 0>> /\ rc.ret
    /\ balance[rc.condition_id] = <<0, 0>>
    /\ mempool = {}

\* The merge call merge_condition makes carries min of the two balances it
\* read, which is > 0.
C3_AmountIsMinOfRead ==
    mc.pc = "exec" =>
        /\ ex.call.kind = "merge"
        /\ ex.call.condition_id = mc.condition_id
        /\ ex.call.amount = Min(mc.balance_yes, mc.balance_no)
        /\ ex.call.amount > 0
        /\ ex.pc = "wait" =>
             \A t \in mempool : t.cur => t.kind = "merge" /\ t.amount = ex.call.amount

\* A merge transaction that the Safe executes takes min of the two balances
\* on chain, leaves (balance_yes - amount, balance_no - amount), and one of
\* the two is then 0.
C3_MergeStep ==
    \A t \in mempool :
        (t.kind = "merge" /\ Mine(t, FALSE) /\ safeNonce' = safeNonce + 1) =>
            LET b == balance[t.condition_id]
                b2 == balance'[t.condition_id]
            IN  /\ t.amount = Min(b[1], b[2])
                /\ b2 = <<b[1] - t.amount, b[2] - t.amount>>
                /\ Min(b2[1], b2[2]) = 0

\* C3: the amount of the merge transaction merge_condition submits is
\* min(balance_yes, balance_no) > 0 of the balances read from the chain, and
\* a successful merge leaves (balance_yes - amount, balance_no - amount),
\* the smaller of which is 0.
C3_MergeAmount == []C3_AmountIsMinOfRead /\ [][C3_MergeStep]_vars

\* C3 witness: balances (2, 1) were read, 1 was merged, (1, 0) is left: the
\* shape of (100000000, 40000000) -> (60000000, 0).
C3_Witness ==
    /\ mc.pc = "exec" /\ mc.balance_yes = 2 /\ mc.balance_no = 1
    /\ ex.call.amount = 1 /\ ex.receipt = "ok"
    /\ balance[mc.condition_id] = <<1, 0>>

\* The step in which _execute_safe_transaction has read the Safe nonce.
C4_NonceReadStep ==
    (ex.pc = "nonce" /\ ex'.pc = "send") =>
        /\ ex'.nonce = safeNonce
        /\ ex.ret => ex'.nonce = ex.nonce + 1
        /\ \A t \in mempool : t.nonce <= ex'.nonce

\* C4: every call of _execute_safe_transaction signs the Safe nonce it has
\* just read from the chain; when the previous call on the wallet returned
\* True having signed N, this call reads and signs N + 1; and the Safe nonce
\* moves by one per executed call, so no nonce value executes two calls.
C4_NonceFresh ==
    [][C4_NonceReadStep /\ (safeNonce' # safeNonce => safeNonce' = safeNonce + 1
                                /\ mempool' = {}
                                /\ \E t \in mempool : t.nonce = safeNonce)]_vars

\* C4 witness: the previous call returned True with nonce 0 and this call
\* has read nonce 1.
C4_Witness ==
    ex.pc = "send" /\ ex.ret /\ ex.obs = "status1" /\ ex.nonce = 1 /\ safeNonce = 1

\* C5, as claimed: at most one broadcast transaction of the process is
\* pending at any time, and no Safe nonce is read while one is pending.
C5_OneInFlight ==
    d.op = "redeem_market_positions" =>
        /\ Cardinality(mempool) <= 1
        /\ ex.pc = "send" => mempool = {}

\* C6: _execute_safe_transaction always returns a boolean, and it returns
\* True exactly when it obtained the receipt and the status was 1 (the
\* transaction was executed); a revert, a timeout and an error at any step
\* give False.
C6_ExecResult ==
    /\ ex.ret \in BOOLEAN
    /\ ex.obs \in {"none", "error", "timeout", "status0", "status1"}
    /\ ex.pc = "idle" => (ex.ret <=> ex.obs = "status1")
    /\ (ex.pc = "idle" /\ ex.obs = "status1") => ex.receipt = "ok"
    /\ (ex.pc = "idle" /\ ex.obs = "status0") => ex.receipt \in {"revert", "stale"}

\* C6 witness: the transaction was mined and reverted, the call returned
\* False.
C6_Witness ==
    ex.pc = "idle" /\ ex.obs = "status0" /\ ex.receipt = "revert" /\ ~ex.ret

\* The call whose transaction the Safe rejected for its nonce did not
\* return True.
C7_StaleNotReported ==
    (ex.receipt = "stale" /\ ex.pc # "wait") => ex.ret = FALSE

\* A transaction signed for a nonce that is no longer the Safe's changes
\* neither a balance nor the Safe nonce when it is mined.
C7_StaleStep ==
    \A t \in mempool, reverts \in BOOLEAN :
        (t.nonce # safeNonce /\ Mine(t, reverts)) =>
            /\ balance' = balance
            /\ safeNonce' = safeNonce
            /\ t.cur => ex'.receipt = "stale"

\* C7: a call signed for Safe nonce N that is mined when the Safe's nonce is
\* no longer N is rejected: it changes no balance, and the action that sent
\* it is reported as failure.
C7_StaleRejected == []C7_StaleNotReported /\ [][C7_StaleStep]_vars

\* C7 witness: the transaction was mined under a stale nonce within the
\* receipt wait, and the call returned False.
C7_Witness ==
    ex.pc = "idle" /\ ex.receipt = "stale" /\ ex.obs = "status0" /\ ~ex.ret

ResolutionEvents == {"resolved", "unresolved", "resolution_error"}

\* C8: when merge_condition returns False inside redeem_condition the run
\* goes on: its next step is the resolution check, and when that check
\* reports the condition resolved the run calls _execute_safe_transaction
\* with the redeem call (the balances of the first read are still non-zero).
C8_MergeFailureNotFatal ==
    \A i \in 1..Len(rc.trace) :
        rc.trace[i] = "merge_false" =>
            /\ ~BothZero(rc.balance_yes, rc.balance_no)
            /\ <<rc.balance_yes, rc.balance_no>> = rc.first
            /\ IF i = Len(rc.trace)
               THEN rc.pc = "resolve"
               ELSE /\ rc.trace[i + 1] \in ResolutionEvents
                    /\ rc.trace[i + 1] = "resolved" =>
                         /\ Len(rc.trace) >= i + 2
                         /\ rc.trace[i + 2] = "redeem_call"
                    /\ rc.trace[i + 1] # "resolved" => rc.pc = "done" /\ rc.ret

\* C8 witness: the merge failed and the run broadcast its redeem.
C8_Witness ==
    /\ rc.pc = "redeeming" /\ ex.pc = "wait"
    /\ "merge_false" \in Events(rc.trace)
    /\ Last(rc.trace) = "submit_redeem"

\* C9: a run whose resolution check reports the condition unresolved (the
\* read gave 0, or failed) returns True and makes no redeem call, whatever
\* balance remains.
C9_UnresolvedIsSuccess ==
    (Events(rc.trace) \cap {"unresolved", "resolution_error"} # {}) =>
        /\ rc.pc = "done"
        /\ rc.ret = TRUE
        /\ ~BothZero(rc.balance_yes, rc.balance_no)
        /\ Events(rc.trace) \cap RedeemEvents = {}

\* C9 witness: (2, 1) was merged to (1, 0), the condition is unresolved, the
\* run returned True and (1, 0) is still on chain (balances (60000000, 0)
\* in units of 60000000).
C9_Witness ==
    /\ rc.pc = "done" /\ rc.ret
    /\ Last(rc.trace) = "unresolved"
    /\ "merge_true" \in Events(rc.trace)
    /\ <<rc.balance_yes, rc.balance_no>> = <<1, 0>>
    /\ balance[rc.condition_id] = <<1, 0>>
    /\ payoutDenominator[rc.condition_id] = 0

\* C10: a run that reached the redeem step returns the result of the redeem
\* submission: True exactly when that call obtained a receipt of status 1,
\* whether the merge step before it succeeded or failed.
C10_ResultIsRedeemResult ==
    (rc.pc = "done" /\ "redeem_call" \in Events(rc.trace)) =>
        /\ rc.ret <=> (ex.obs = "status1")
        /\ rc.ret <=> (Last(rc.trace) = "redeem_true")
        /\ rc.ret => ex.receipt = "ok"

\* C10 witness: the merge failed, the redeem was executed, the run returned
\* True.
C10_Witness ==
    /\ rc.pc = "done" /\ rc.ret
    /\ "merge_false" \in Events(rc.trace)
    /\ Last(rc.trace) = "redeem_true"

\* C11, as claimed: every decision of a run that depends on the balances
\* (the both-zero test of line 288, the resolution check and the redeem that
\* follows it) is taken on balances read after the run's latest transaction
\* submission, whether that submission succeeded or failed.
C11_BalancesRereadAfterSubmission ==
    \A i \in 1..Len(rc.trace) :
        rc.trace[i] = "submit_merge" =>
            /\ rc.pc = "resolve" =>
                 \E k \in (i + 1)..Len(rc.trace) : rc.trace[k] = "rebalances"
            /\ \A j \in (i + 1)..Len(rc.trace) :
                 rc.trace[j] \in ResolutionEvents =>
                     \E k \in (i + 1)..(j - 1) : rc.trace[k] = "rebalances"

\* The conditions of a running batch: those already handed to
\* redeem_condition are the listed ones no longer remaining, the run in
\* progress is on one of them, and the tally counts no more than them.
C12_Tally ==
    /\ (d.op \in BatchOps /\ d.pc = "loop") =>
          /\ d.condition_ids # {}
          /\ d.remaining \subseteq d.condition_ids
          /\ rc.pc # "idle" => rc.condition_id \in d.condition_ids \ d.remaining
          /\ d.successful \in 0..Cardinality(d.condition_ids \ d.remaining)
          /\ rc.pc \notin {"idle", "done"} =>
                d.successful < Cardinality(d.condition_ids \ d.remaining)
    /\ d.ret[1] \in 0..d.ret[2] /\ d.ret[2] \in 0..Cardinality(Conds)

\* The steps of a batch: the call takes the distinct non-empty condition ids
\* of the positions; a run starts on a condition that had none yet; a run's
\* return adds 1 to the tally exactly when it returned True; the batch
\* returns (successful, number of distinct ids) after the last run only.
C12_BatchStep ==
    /\ (d.op = "idle" /\ d'.op \in BatchOps) =>
          d'.pc = "ids" /\ d'.successful = 0 /\ rc'.pc = "idle"
    /\ (d.op \in BatchOps /\ d.pc = "ids") =>
          \/ d' = d
          \/ LET ids == {c \in Conds :
                          \E i \in 1..Len(d.positions) : d.positions[i].conditionId = c}
             IN  IF ids = {}
                 THEN d'.op = "idle" /\ d'.ret = <<0, 0>>
                 ELSE d'.op = d.op /\ d'.pc = "loop" /\ d'.condition_ids = ids
                                   /\ d'.remaining = ids /\ d'.successful = 0
    /\ (d.op \in BatchOps /\ rc.pc \in {"idle", "done"} /\ rc'.pc \notin {"idle", "done"}) =>
          /\ rc'.condition_id \in d.remaining
          /\ d' = [d EXCEPT !.remaining = @ \ {rc'.condition_id}]
    /\ (d.op \in BatchOps /\ rc.pc \notin {"idle", "done"} /\ rc'.pc = "done") =>
          /\ d'.successful = d.successful + (IF rc'.ret THEN 1 ELSE 0)
          /\ IF d.remaining = {}
             THEN d'.op = "idle" /\ d'.ret = <<d'.successful, Cardinality(d.condition_ids)>>
             ELSE d'.op = d.op /\ d'.remaining = d.remaining
                               /\ d'.condition_ids = d.condition_ids
    /\ (d.op \in BatchOps /\ d' # d) =>
          \/ d.pc = "ids"
          \/ rc.pc \in {"idle", "done"} /\ rc'.pc \notin {"idle", "done"}
          \/ rc.pc \notin {"idle", "done"} /\ rc'.pc = "done"

\* C12: for every list of positions the batch drivers run redeem_condition
\* exactly once per distinct non-empty conditionId and return
\* (successful, total): total the number of distinct ids, successful the
\* number of the runs that returned True, 0 <= successful <= total.
C12_OncePerCondition == []C12_Tally /\ [][C12_BatchStep]_vars

\* C12 witness: a batch over two conditions returned (1, 2): one run
\* succeeded, the other failed.
C12_Witness ==
    /\ d.op = "idle" /\ d.ret = <<1, 2>>
    /\ rc.pc = "done"

\* The steps of the program inside a public operation (the chain's steps
\* and the calls of public operations left out).
ProgramNext ==
    \/ DriverIds
    \/ \E c \in Conds : DriverNext(c)
    \/ \E ok \in BOOLEAN : RcReadYes(ok)
    \/ \E ok \in BOOLEAN : RcReadNo(ok)
    \/ \E ok \in BOOLEAN : RcRereadNo(ok)
    \/ \E ok \in BOOLEAN : RcCheckResolved(ok)
    \/ \E ok \in BOOLEAN : McReadYes(ok)
    \/ \E ok \in BOOLEAN : McReadNo(ok)
    \/ \E ok \in BOOLEAN : ExecReadNonce(ok)
    \/ ExecSend
    \/ \E at \in FailPoints : ExecSendFails(at)
    \/ ExecReceipt
    \/ \E why \in {"timeout", "error"} : ExecTimeout(why)

\* How far a run of redeem_condition has come (its frames' positions in
\* program order).
RunPosition(rcf, mcf, exf) ==
    CASE rcf.pc \in {"idle", "done"} -> 14
      [] rcf.pc = "bal_yes" -> 1
      [] rcf.pc = "bal_no" -> 2
      [] rcf.pc = "merging" ->
            (CASE mcf.pc = "bal_yes" -> 3
               [] mcf.pc = "bal_no" -> 4
               [] OTHER -> (CASE exf.pc = "nonce" -> 5
                              [] exf.pc = "send" -> 6
                              [] OTHER -> 7))
      [] rcf.pc = "rebal_yes" -> 8
      [] rcf.pc = "rebal_no" -> 9
      [] rcf.pc = "resolve" -> 10
      [] OTHER -> (CASE exf.pc = "nonce" -> 11
                     [] exf.pc = "send" -> 12
                     [] OTHER -> 13)

\* The steps a batch has left at most: 15 per condition not yet started,
\* less the position of the run in progress; before the set of condition
\* ids is built, one step more than a batch over as many conditions as
\* there are positions.
BatchRank(df, rcf, mcf, exf) ==
    IF df.pc = "ids"
    THEN (Len(df.positions) + 1) * 15 + 1
    ELSE (Cardinality(df.remaining) + 1) * 15 - RunPosition(rcf, mcf, exf)

\* A running batch is never stuck: a step of the program is possible.
C13_NeverStuck ==
    d.op \in BatchOps => ENABLED ProgramNext

\* Every step of the program in a batch brings the batch nearer to its
\* return; a run that failed leaves the batch running when conditions
\* remain, and the batch returns only when none remains.
C13_BatchStep ==
    d.op \in BatchOps =>
        /\ BatchRank(d, rc, mc, ex) > 0
        /\ <<d, rc, mc, ex.pc>>' # <<d, rc, mc, ex.pc>> =>
              \/ d'.op = "idle"
              \/ BatchRank(d', rc', mc', ex') < BatchRank(d, rc, mc, ex)
        /\ (rc.pc \notin {"idle", "done"} /\ rc'.pc = "done" /\ d.remaining # {}) =>
              d'.op = d.op /\ d'.remaining = d.remaining
        /\ (d.pc = "loop" /\ d'.op = "idle") =>
              /\ d.remaining = {} /\ rc'.pc = "done"
              /\ d'.ret[2] = Cardinality(d.condition_ids)

\* C13: a batch over a finite set of conditions terminates, and the failure
\* of one condition (revert, timeout, RPC error, balance-read error) does
\* not keep the remaining conditions from being processed: the program
\* always has a next step, each step takes the batch nearer to its return,
\* and it returns its tally only after the last condition's run.
C13_BatchTerminates == []C13_NeverStuck /\ [][C13_BatchStep]_vars

\* C13 witness: the first condition's transaction reverted on chain and its
\* run failed; the run of the second condition has started.
C13_Witness ==
    /\ d.op \in BatchOps /\ Cardinality(d.condition_ids) = 2
    /\ d.remaining = {} /\ d.successful = 0
    /\ rc.pc = "bal_yes" /\ ex.obs = "status0"

Count(tr, e) == Cardinality({i \in 1..Len(tr) : tr[i] = e})

\* C14: nothing is retried: a run of redeem_condition calls merge_condition
\* at most once and broadcasts at most one merge and at most one redeem
\* transaction, a run of merge_condition broadcasts at most one
\* transaction, and once a run has returned no call of
\* _execute_safe_transaction is left in progress, whatever the outcomes
\* were.
C14_NoRetry ==
    /\ \A e \in {"merge_call", "submit_merge", "redeem_call", "submit_redeem"} :
          Count(rc.trace, e) <= 1
    /\ mc.sent <= 1
    /\ (mc.pc \in {"idle", "done"} /\ rc.pc # "redeeming") => ex.pc = "idle"
    /\ ex.pc # "idle" => (mc.pc = "exec") # (rc.pc = "redeeming")

\* C14 witness: in one run the merge transaction and the redeem transaction
\* were broadcast and both calls failed; the run returned False.
C14_Witness ==
    /\ rc.pc = "done" /\ ~rc.ret
    /\ "submit_merge" \in Events(rc.trace) /\ "merge_false" \in Events(rc.trace)
    /\ "submit_redeem" \in Events(rc.trace) /\ Last(rc.trace) = "redeem_false"
    /\ mc.sent = 1

\* C15: a balance read of redeem_condition that fails (line 268 or 282)
\* ends the run: the run returns False, the failed read is the last thing
\* it did, so no merge, no resolution check and no redeem follows it, and
\* no call of _execute_safe_transaction is in progress.
C15_BalanceReadHardStop ==
    "balance_error" \in Events(rc.trace) =>
        /\ rc.pc = "done" /\ rc.ret = FALSE
        /\ Last(rc.trace) = "balance_error"
        /\ Count(rc.trace, "balance_error") = 1
        /\ Events(rc.trace) \cap (RedeemEvents \cup ResolutionEvents) = {}
        /\ "balances" \notin Events(rc.trace) =>
              /\ rc.trace = <<"balance_error">>
              /\ mc.pc = "idle"
        /\ ex.pc = "idle" /\ mc.pc \in {"idle", "done"}

\* C15 witness: the merge succeeded, the re-read failed; the condition is
\* resolved and a balance is left on chain, and the run returned False
\* without a redeem.
C15_Witness ==
    /\ rc.pc = "done" /\ ~rc.ret
    /\ "merge_true" \in Events(rc.trace)
    /\ Last(rc.trace) = "balance_error"
    /\ payoutDenominator[rc.condition_id] > 0
    /\ balance[rc.condition_id] # <<0, 0>>

\* Every redeem call names both outcomes, and a run that returned True
\* after its redeem leaves nothing of the condition on chain.
C16_RedeemedAll ==
    /\ ex.call.kind = "redeem" => ex.call.index_sets = {1, 2}
    /\ \A t \in mempool : t.kind = "redeem" => t.index_sets = {1, 2}
    /\ (rc.pc = "done" /\ Len(rc.trace) > 0 /\ Last(rc.trace) = "redeem_true") =>
          /\ rc.ret
          /\ ~BothZero(rc.balance_yes, rc.balance_no)
          /\ balance[rc.condition_id] = <<0, 0>>

\* A redeem transaction the Safe executes takes the whole balance of both
\* outcomes.
C16_RedeemStep ==
    \A t \in mempool :
        (t.kind = "redeem" /\ Mine(t, FALSE) /\ safeNonce' = safeNonce + 1) =>
            balance'[t.condition_id] = <<0, 0>>

\* C16: for a resolved condition with a balance left the redeem covers the
\* whole balance of both outcomes: when the submission succeeds both
\* balances of the condition are 0, so that a later run finds (0, 0) and
\* does nothing (C2).
C16_RedeemCoversAll == []C16_RedeemedAll /\ [][C16_RedeemStep]_vars

\* C16 witness: the run held (1, 0) (the shape of (60000000, 0)), its redeem
\* succeeded and (0, 0) is on chain.
C16_Witness ==
    /\ rc.pc = "done" /\ rc.ret /\ Last(rc.trace) = "redeem_true"
    /\ <<rc.balance_yes, rc.balance_no>> = <<1, 0>>
    /\ balance[rc.condition_id] = <<0, 0>>
    /\ payoutDenominator[rc.condition_id] > 0

\* C17, as claimed: every condition id redeem_market_positions(market_slug)
\* takes comes from a listed position whose slug contains market_slug, or,
\* when no listed position's slug contains it, from one whose slug equals
\* market_slug.
C17_OnlyMarketSlug ==
    (lst.pc = "done" /\ lst.market_slug # NoSlug) =>
        LET all == lst.all_positions
            partial == {i \in 1..Len(all) : Contains(lst.market_slug, all[i].slug)}
        IN  \A c \in lst.condition_ids :
                \E i \in 1..Len(all) :
                    /\ all[i].conditionId = c
                    /\ \/ i \in partial
                       \/ partial = {} /\ all[i].slug = lst.market_slug

\* market_slug up to its last "-", the whole of it when it has none
C17_Series(m) ==
    LET dashes == {i \in 1..Len(m) : m[i] = "-"}
    IN  IF dashes = {} THEN m
        ELSE SubSeq(m, 1, (CHOOSE i \in dashes : \A j \in dashes : j <= i) - 1)

\* C17: redeem_market_positions(market_slug) takes exactly the listed
\* positions whose slug is not empty and contains market_slug up to its last
\* "-" (the whole market_slug when it has no "-"), in their order, and
\* settles the distinct non-empty condition ids of these; the positions of
\* another market whose slug contains that prefix are among them, and the
\* exact match selects nothing that the partial match left out.
C17_SeriesFilter ==
    (lst.pc = "done" /\ lst.market_slug # NoSlug) =>
        LET all == lst.all_positions
            InSeries(p) == p.slug # NoSlug /\ Contains(C17_Series(lst.market_slug), p.slug)
        IN  /\ lst.ret = SelectSeq(all, InSeries)
            /\ lst.condition_ids =
                  {all[i].conditionId : i \in {j \in 1..Len(all) : InSeries(all[j])}} \ {NoId}

\* C17 witness: for market a-1 the positions of a-1 and of its sibling a-2
\* are both taken, and both conditions are to be settled.
C17_Witness ==
    /\ lst.pc = "done" /\ lst.market_slug = <<"a", "-", "1">>
    /\ lst.condition_ids = {"c1", "c2"}
    /\ \E i \in 1..Len(lst.ret) : lst.ret[i] = [conditionId |-> "c1", slug |-> <<"a", "-", "1">>]
    /\ \E i \in 1..Len(lst.ret) : lst.ret[i] = [conditionId |-> "c2", slug |-> <<"a", "-", "2">>]

\* C18: with the signing key or the wallet address missing nothing is done
\* on the chain: every run of redeem_condition and of merge_condition
\* returns False in its first step, before any balance or resolution read,
\* no call of _execute_safe_transaction is made, so no nonce is read and
\* nothing is broadcast, and no condition is counted as settled.
C18_ConfigErrorNoProgress ==
    (~environ.PRIVATE_KEY \/ ~environ.POLYMARKET_PROXY_ADDRESS) =>
        /\ mempool = {} /\ safeNonce = 0
        /\ ex.pc = "idle" /\ ex.obs = "none" /\ ex.call = NoCall
        /\ rc.pc \in {"idle", "bal_yes", "done"}
        /\ rc.first = <<>> /\ rc.trace \in {<<>>, <<"config_error">>}
        /\ rc.pc = "done" => ~rc.ret /\ rc.trace = <<"config_error">>
        /\ mc.pc \in {"idle", "bal_yes", "done"} /\ mc.sent = 0
        /\ mc.pc = "done" => ~mc.ret
        /\ d.successful = 0 /\ d.ret[1] = 0

\* C18 witness: the signing key is missing; a batch over two conditions
\* returned (0, 2) and the chain was not touched.
C18_Witness ==
    /\ ~environ.PRIVATE_KEY /\ environ.POLYMARKET_PROXY_ADDRESS
    /\ d.op = "idle" /\ d.ret = <<0, 2>>
    /\ rc.pc = "done" /\ ~rc.ret
    /\ mempool = {}

\* A step of merge_balanced_positions counts a condition exactly when it is
\* the step in which the receipt of status 1 of that condition's merge
\* transaction was obtained.
C19_CountStep ==
    d.op = "merge_balanced_positions" =>
        /\ d'.successful \in {d.successful, d.successful + 1}
        /\ d'.successful = d.successful + 1 <=>
              /\ mc.pc = "exec" /\ mc.sent = 1 /\ mc.condition_id = d.condition_id
              /\ ex.pc = "wait" /\ ex'.pc = "idle" /\ ex'.obs = "status1"

\* C19, as claimed: the number of merges merge_balanced_positions returns is
\* the number of conditions whose merge transaction was broadcast and
\* confirmed with status 1; a condition for which nothing was broadcast is
\* not counted.
C19_CountsConfirmedMerges == [][C19_CountStep]_vars

\* byte i of the 32-byte big-endian form of a number n < 2^31
C20_Byte(n, i) ==
    CASE i <= 28 -> 0
      [] i = 29 -> (n \div 16777216) % 256
      [] i = 30 -> (n \div 65536) % 256
      [] i = 31 -> (n \div 256) % 256
      [] OTHER -> n % 256

\* C20: the signature passed to execTransaction is 65 bytes: the 32 bytes
\* of r, the highest first, then the 32 bytes of s, the highest first, then
\* the byte v; splitting the blob at 32 and 64 gives back (r, s, v), and
\* with them the signer that signed.
C20_SignatureLayout ==
    /\ sg.pc \in {"assembled", "checked"} =>
          /\ Len(sg.signature) = 65
          /\ \A i \in 1..65 : sg.signature[i] \in 0..255
          /\ \A i \in 1..32 : sg.signature[i] = C20_Byte(sg.r, i)
          /\ \A i \in 1..32 : sg.signature[32 + i] = C20_Byte(sg.s, i)
          /\ sg.signature[65] = sg.v
    /\ sg.pc = "checked" =>
          /\ sg.decoded = <<sg.r, sg.s, sg.v>>
          /\ sg.recovered = sg.signer

\* C20 witness: r = 0x010000 and s = 0xff were assembled and split again.
C20_Witness ==
    /\ sg.pc = "checked" /\ sg.r = 65536 /\ sg.s = 255 /\ sg.v = 28
    /\ sg.signature[30] = 1 /\ sg.signature[64] = 255 /\ sg.signature[65] = 28
    /\ sg.recovered = sg.signer

\* The place of an event in the order of a run: the balance read, the
\* merge attempt (call, broadcast, return), the re-read, the resolution
\* check, the redeem attempt (call, broadcast, return); an error that ends
\* the run comes last.
C21_Phase(e) ==
    CASE e = "balances" -> 1
      [] e = "merge_call" -> 2
      [] e = "submit_merge" -> 3
      [] e \in {"merge_true", "merge_false"} -> 4
      [] e = "rebalances" -> 5
      [] e \in ResolutionEvents -> 6
      [] e = "redeem_call" -> 7
      [] e = "submit_redeem" -> 8
      [] e \in {"redeem_true", "redeem_false"} -> 9
      [] OTHER -> 10

\* What a run of redeem_condition has done so far is in the order of the
\* phases; it began with the balance read; it attempted a merge only when
\* both balances of that read were positive, and then the attempt returned
\* before the resolution check and before any redeem; a redeem was
\* broadcast after the check found the condition resolved; and a run that
\* returned has no call in progress, True after a no-op, a wait for
\* resolution or a redeem that succeeded, False after an error or a redeem
\* that failed.
C21_Order ==
    LET tr == rc.trace
        ev == Events(tr)
    IN  /\ \A i, j \in 1..Len(tr) : i < j => C21_Phase(tr[i]) < C21_Phase(tr[j])
        /\ tr # <<>> => tr[1] \in {"balances", "balance_error", "config_error"}
        /\ "merge_call" \in ev =>
              rc.first # <<>> /\ rc.first[1] > 0 /\ rc.first[2] > 0
        /\ (ev \cap (ResolutionEvents \cup {"rebalances", "redeem_call", "submit_redeem"}) # {}
               /\ rc.first[1] > 0 /\ rc.first[2] > 0) =>
              /\ "merge_call" \in ev
              /\ ev \cap {"merge_true", "merge_false"} # {}
        /\ "submit_redeem" \in ev => "resolved" \in ev /\ "redeem_call" \in ev
        /\ rc.pc = "done" =>
              /\ ex.pc = "idle" /\ mc.pc \in {"idle", "done"}
              /\ tr # <<>>
              /\ IF rc.ret
                 THEN Last(tr) \in {"balances", "rebalances", "unresolved",
                                    "resolution_error", "redeem_true"}
                 ELSE Last(tr) \in {"balance_error", "config_error", "redeem_false"}

\* A run in progress only adds to what it has done, and a run that returned
\* takes no further step: its frame stays as it is until another operation
\* begins.
C21_RunStep ==
    /\ (rc.pc \notin {"idle", "done"} /\ rc' # rc) =>
          /\ Len(rc'.trace) >= Len(rc.trace)
          /\ SubSeq(rc'.trace, 1, Len(rc.trace)) = rc.trace
          /\ rc'.condition_id = rc.condition_id
    /\ (rc.pc = "done" /\ rc' # rc) =>
          /\ rc'.trace = <<>>
          /\ rc'.pc \in {"idle", "bal_yes"}

\* C21: within one run of redeem_condition the steps occur in the order
\* balance read, merge attempt (only if both balances are positive),
\* resolution check, redeem attempt; no redeem transaction is broadcast
\* before the merge attempt of the run has returned, the resolution check
\* never precedes the merge attempt, and every run ends returning True or
\* False with no step taken after that.
C21_RunOrder == []C21_Order /\ [][C21_RunStep]_vars

\* C21 witness: a run read the balances, merged, re-read, found the
\* condition resolved, redeemed and returned True.
C21_Witness ==
    /\ rc.pc = "done" /\ rc.ret
    /\ rc.trace = <<"balances", "merge_call", "submit_merge", "merge_true", "rebalances",
                    "resolved", "redeem_call", "submit_redeem", "redeem_true">>

\* The calls in progress and the flags of the frames: a merge call is
\* merge_condition's and a redeem call is redeem_condition's, and each goes
\* to the adapter exactly when the flag of its frame is true, to the
\* framework otherwise; merge_condition inside redeem_condition runs under
\* redeem_condition's flag; the frames of a batch have the flag false.
C22_Flags ==
    /\ ex.call.kind = "merge" =>
          /\ mc.pc = "exec"
          /\ ex.call.to = IF mc.neg_risk THEN NEG_RISK_ADAPTER_ADDRESS
                          ELSE CONDITIONAL_TOKENS_FRAMEWORK_ADDRESS
    /\ ex.call.kind = "redeem" =>
          /\ rc.pc = "redeeming"
          /\ ex.call.to = IF rc.neg_risk THEN NEG_RISK_ADAPTER_ADDRESS
                          ELSE CONDITIONAL_TOKENS_FRAMEWORK_ADDRESS
    /\ rc.pc = "merging" => mc.pc \notin {"idle", "done"} /\ mc.neg_risk = rc.neg_risk
    /\ d.op \in BatchOps \cup {"merge_balanced_positions"} =>
          ~rc.neg_risk /\ ~mc.neg_risk
    /\ \A t \in mempool :
          t.to \in {NEG_RISK_ADAPTER_ADDRESS, CONDITIONAL_TOKENS_FRAMEWORK_ADDRESS}

\* A per-condition operation runs under the flag it was called with, from
\* its call to its return, and the transaction that is broadcast goes to
\* the target of the call in progress.
C22_FlagStep ==
    /\ \A c \in Conds, neg_risk \in BOOLEAN :
          /\ CallRedeemCondition(c, neg_risk) => rc'.neg_risk = neg_risk
          /\ CallMergeConditionWith(c, neg_risk) => mc'.neg_risk = neg_risk
    /\ rc.pc \notin {"idle", "done"} => rc'.neg_risk = rc.neg_risk
    /\ (mc.pc \notin {"idle", "done"} /\ mc'.pc \notin {"idle", "done"}) =>
          mc'.neg_risk = mc.neg_risk
    /\ (ex.pc = "send" /\ ex'.pc = "wait") =>
          \E t \in mempool' :
              /\ t.cur /\ t.kind = ex.call.kind
              /\ t.to = LET neg_risk == IF t.kind = "merge" THEN mc.neg_risk
                                        ELSE rc.neg_risk
                        IN  IF neg_risk THEN NEG_RISK_ADAPTER_ADDRESS
                            ELSE CONDITIONAL_TOKENS_FRAMEWORK_ADDRESS
              /\ \A u \in mempool' \ {t} : ~u.cur /\ [u EXCEPT !.cur = TRUE] \in
                      {[v EXCEPT !.cur = TRUE] : v \in mempool}

\* C22: the target address of every submitted merge or redeem call is the
\* negative-risk adapter address if and only if the neg_risk flag of the
\* operation is true, and the standard framework address otherwise;
\* redeem_condition passes its own flag on to its merge step, and the batch
\* drivers always run with the flag false.
C22_TargetByFlag == []C22_Flags /\ [][C22_FlagStep]_vars

\* C22 witness: redeem_condition was called with neg_risk true; its merge
\* was broadcast, and its redeem transaction, addressed to the adapter, is
\* in the mempool.
C22_Witness ==
    /\ d.op = "redeem_condition" /\ rc.neg_risk /\ rc.pc = "redeeming"
    /\ "submit_merge" \in Events(rc.trace) /\ "submit_redeem" \in Events(rc.trace)
    /\ \E t \in mempool : t.cur /\ t.kind = "redeem" /\ t.to = NEG_RISK_ADAPTER_ADDRESS

\* merge_condition decides from the balances it read itself: it returns
\* True without a call when one of them is 0, and the amount of the call it
\* makes is the smaller of them; after merge_condition returned True to
\* redeem_condition, the balances are read again from the chain, and the
\* run decides on these.
C23_OwnReadStep ==
    LET own_yes == mc.balance_yes
        own_no == balance[mc.condition_id][2]
        chain == balance[rc.condition_id]
    IN  /\ (mc.pc = "bal_no" /\ mc'.pc = "done" /\ mc'.ret) =>
              /\ own_yes = 0 \/ own_no = 0
              /\ mc'.sent = 0 /\ mempool' = mempool /\ ex' = ex
        /\ (McReadNo(TRUE) /\ (own_yes = 0 \/ own_no = 0)) =>
              mc'.pc = "done" /\ mc'.ret
        /\ (mc.pc = "bal_no" /\ mc'.pc = "exec") =>
              /\ own_yes > 0 /\ own_no > 0
              /\ ex'.call.amount = IF own_yes <= own_no THEN own_yes ELSE own_no
        /\ (rc.pc = "merging" /\ rc'.pc # "merging" /\ mc'.ret) =>
              rc'.pc = "rebal_yes" /\ Last(rc'.trace) = "merge_true"
        /\ (rc.pc = "rebal_yes" /\ rc'.pc = "rebal_no") => rc'.balance_yes = chain[1]
        /\ (rc.pc = "rebal_no" /\ "rebalances" \in Events(rc'.trace)) =>
              /\ rc'.balance_no = chain[2] /\ rc'.balance_yes = rc.balance_yes
              /\ IF rc.balance_yes = 0 /\ chain[2] = 0
                 THEN rc'.pc = "done" /\ rc'.ret
                 ELSE rc'.pc = "resolve"

\* In what a run has done, a merge that returned True is followed by the
\* re-read of the balances (or by its failure) before anything else.
C23_RereadFollows ==
    \A i \in 1..Len(rc.trace) :
        rc.trace[i] = "merge_true" =>
            IF i = Len(rc.trace)
            THEN rc.pc \in {"rebal_yes", "rebal_no"}
            ELSE rc.trace[i + 1] \in {"rebalances", "balance_error"}

\* C23: merge_condition decides from its own balance read, not from its
\* caller's: if min(balance_yes, balance_no) is 0 at that read it submits
\* no transaction and returns True, so a True result of the merge step
\* inside redeem_condition does not imply that a merge transaction was
\* executed, and redeem_condition then re-reads the balances before
\* deciding further.
C23_MergeDecidesFromOwnRead == []C23_RereadFollows /\ [][C23_OwnReadStep]_vars

\* C23 witness: the run read two positive balances and called
\* merge_condition, which read a 0, broadcast nothing and returned True; the
\* run read the balances again.
C23_Witness ==
    /\ rc.first # <<>> /\ rc.first[1] > 0 /\ rc.first[2] > 0
    /\ "merge_true" \in Events(rc.trace) /\ "submit_merge" \notin Events(rc.trace)
    /\ "rebalances" \in Events(rc.trace)
    /\ mc.pc = "done" /\ mc.ret /\ mc.sent = 0

TypeOK ==
    /\ balance \in [Conds -> Nat \X Nat]
    /\ safeNonce \in Nat
    /\ d.op \in {"idle", "merge_condition", "redeem_condition",
                 "merge_balanced_positions"} \cup BatchOps
    /\ d.pc \in {"idle", "ids", "loop", "bal_no", "merging"}
    /\ d.pc = "ids" \/ d.positions = <<>>
    /\ d.remaining \subseteq d.condition_ids /\ d.condition_ids \subseteq Conds
    /\ rc.pc \in {"idle", "bal_yes", "bal_no", "merging", "rebal_yes", "rebal_no",
                  "resolve", "redeeming", "done"}
    /\ mc.pc \in {"idle", "bal_yes", "bal_no", "exec", "done"}
    /\ ex.pc \in {"idle", "nonce", "send", "wait"}
    /\ (ex.receipt = "pending") = (\E t \in mempool : t.cur)
====
